---- MODULE Spec2Model ----
(***************************************************************************)
(* A model of the Slack <-> chat-completion bridge of src/src/lib.rs:      *)
(* handler (the trigger-word / session-flag gate, the MESSAGES lock and    *)
(* the final send) and chat_inner (the two model round-trips and the tool  *)
(* dispatch loop between them).                                            *)
(*                                                                         *)
(* Handler invocations are async: one invocation runs without interruption *)
(* from one .await to the next (tokio current_thread), so every action     *)
(* below is the code between two suspension points.  Text is modelled as a *)
(* tuple of one-character strings, Option<T> as a tuple of length 0 or 1.  *)
(***************************************************************************)
EXTENDS Integers, Sequences, FiniteSets, TLC

\* Number of inbound messages delivered to the process in one behaviour.
MaxHandlings == 3

\* The handler invocations that may overlap.
Handlers == {1, 2}

-----------------------------------------------------------------------------
(* Option<T> *)
None == <<>>
Some(x) == <<x>>

(* serde_json::Value, as far as the session store uses it *)
JBool(b) == <<"bool", b>>
JString(s) == <<"string", s>>

\* Value::as_bool: Some(b) for a JSON boolean, None for any other value.
AsBool(v) == IF v[1] = "bool" THEN Some(v[2]) ELSE None

\* Option::unwrap_or
UnwrapOr(o, d) == IF o # None THEN o[1] ELSE d

-----------------------------------------------------------------------------
(* Text *)

\* The configured trigger word (environment variable trigger_word).
trigger_word == <<"t", "c">>

\* str::starts_with
StartsWith(s, p) == Len(p) <= Len(s) /\ SubSeq(s, 1, Len(p)) = p

\* The text that is left when only the leading p is cut off s.
StripPrefix(s, p) == SubSeq(s, Len(p) + 1, Len(s))

\* str::replace with a non-empty pattern: every non-overlapping match of p
\* in s, scanning left to right, is replaced by t.
RECURSIVE Replace(_, _, _)
Replace(s, p, t) ==
    IF s = <<>> THEN <<>>
    ELSE IF StartsWith(s, p) THEN t \o Replace(SubSeq(s, Len(p) + 1, Len(s)), p, t)
    ELSE <<Head(s)>> \o Replace(Tail(s), p, t)

\* The texts of the inbound channel messages.
InboundTexts ==
    { <<"a">>,
      <<"t", "c", "a", "t", "c">> }

-----------------------------------------------------------------------------
(* Chat messages, tools, requests *)

SystemMessage(content) == [role |-> "system", name |-> "", content |-> content]
UserMessage(content) == [role |-> "user", name |-> "", content |-> content]
FunctionMessage(name, content) == [role |-> "function", name |-> name, content |-> content]

\* The value MESSAGES is first initialised with.
InitialMessages == << SystemMessage(<<"Perform function requests for the user">>) >>

\* The tool registry: name and required parameters of each advertised tool.
TOOLS ==
    << [name |-> "getWeather", required |-> <<"city">>],
       [name |-> "scraper", required |-> <<"url">>],
       [name |-> "getTimeOfDay", required |-> <<>>] >>

\* Request #1: model, the conversation so far, the tools, max_tokens 512.
Request1(messages) ==
    [model |-> "gpt-3.5-turbo-1106", messages |-> messages,
     tools |-> Some(TOOLS), max_tokens |-> Some(512)]

\* Mutant of Request2: the tools are offered in the second round too.
Request2WithTools(messages) ==
    [model |-> "gpt-3.5-turbo-1106", messages |-> messages,
     tools |-> Some(TOOLS), max_tokens |-> None]

\* Request #2: model and the conversation so far; nothing else is set.
Request2(messages) ==
    [model |-> "gpt-3.5-turbo-1106", messages |-> messages,
     tools |-> None, max_tokens |-> None]

-----------------------------------------------------------------------------
(* Tool-call arguments: a JSON text as its tokens, each <<kind, text>> *)

LBrace == <<"punct", "{">>
RBrace == <<"punct", "}">>
Colon == <<"punct", ":">>
Comma == <<"punct", ",">>
Str(s) == <<"str", s>>
Num(s) == <<"num", s>>

ArgsEmpty == <<LBrace, RBrace>>
ArgsCity == <<LBrace, Str("city"), Colon, Str("Rome"), RBrace>>
ArgsUrl == <<LBrace, Str("url"), Colon, Str("http://x"), RBrace>>
ArgsCityNum == <<LBrace, Str("city"), Colon, Num("1"), RBrace>>
ArgsCut == <<LBrace, Str("url")>>

EmptyMap == [k \in {} |-> ""]

\* The members of a JSON object, "key": "value" separated by commas, read
\* into the map m; any other token sequence is an error.
RECURSIVE Members(_, _)
Members(toks, m) ==
    IF Len(toks) < 3 THEN <<"Err">>
    ELSE IF ~(toks[1][1] = "str" /\ toks[2] = Colon /\ toks[3][1] = "str") THEN <<"Err">>
    ELSE LET m1 == [k \in DOMAIN m \cup {toks[1][2]} |->
                        IF k = toks[1][2] THEN toks[3][2] ELSE m[k]]
         IN IF Len(toks) = 3 THEN <<"Ok", m1>>
            ELSE IF toks[4] = Comma THEN Members(SubSeq(toks, 5, Len(toks)), m1)
            ELSE <<"Err">>

\* serde_json::from_str::<HashMap<String, String>>
FromStr(toks) ==
    IF Len(toks) < 2 \/ toks[1] # LBrace \/ toks[Len(toks)] # RBrace THEN <<"Err">>
    ELSE IF Len(toks) = 2 THEN <<"Ok", EmptyMap>>
    ELSE Members(SubSeq(toks, 2, Len(toks) - 1), EmptyMap)

ToolCall(name, arguments) == [name |-> name, arguments |-> arguments]

\* The tool-call lists a model response may carry.
ToolCallBatches ==
    { <<>>,
      << ToolCall("getWeather", ArgsCity) >>,
      << ToolCall("scraper", ArgsUrl) >>,
      << ToolCall("translate", ArgsCut) >>,
      << ToolCall("getWeather", ArgsEmpty) >>,
      << ToolCall("scraper", ArgsCity) >>,
      << ToolCall("scraper", ArgsCut) >>,
      << ToolCall("getTimeOfDay", ArgsEmpty), ToolCall("getWeather", ArgsCity) >>,
      << ToolCall("scraper", ArgsUrl), ToolCall("getWeather", ArgsCityNum) >>,
      << ToolCall("translate", ArgsCut), ToolCall("getTimeOfDay", ArgsEmpty) >> }

-----------------------------------------------------------------------------
(* Model responses *)

Choice(finish_reason, content, tool_calls) ==
    [finish_reason |-> finish_reason, content |-> content, tool_calls |-> tool_calls]

\* Result<CreateChatCompletionResponse, OpenAIError>
ApiErr == [ok |-> FALSE, choices |-> <<>>]
ApiOk(choices) == [ok |-> TRUE, choices |-> choices]

\* What the model API may answer to request #1.
Responses1 ==
    { ApiErr, ApiOk(<<>>) }
    \cup { ApiOk(<<Choice(Some("tool_calls"), None, Some(b))>>) : b \in ToolCallBatches }
    \cup { ApiOk(<<Choice(Some("tool_calls"), None, None)>>),
           ApiOk(<<Choice(None, None, None)>>),
           ApiOk(<<Choice(Some("stop"), Some(<<"first">>),
                          Some(<<ToolCall("getWeather", ArgsCity)>>)),
                   Choice(Some("tool_calls"), None, Some(<<ToolCall("getTimeOfDay", ArgsEmpty)>>))>>) }

\* What the model API may answer to request #2.
Responses2 ==
    { ApiErr, ApiOk(<<>>),
      ApiOk(<<Choice(Some("stop"), Some(<<"final">>), None)>>),
      ApiOk(<<Choice(Some("tool_calls"), None, Some(<<ToolCall("getTimeOfDay", ArgsEmpty)>>)),
              Choice(Some("stop"), Some(<<"second choice">>), None)>>) }

-----------------------------------------------------------------------------
(* Capability functions *)

\* ApiResult with temperatures and wind speed in tenths (107 is 10.7).
ApiResult(weather, temp_min, temp_max, speed) ==
    [weather |-> weather, main |-> [temp_min |-> temp_min, temp_max |-> temp_max],
     wind |-> [speed |-> speed]]

\* What the weather provider may answer: no answer, a non-success status,
\* a body that does not decode, a body that decodes.
ProviderReplies ==
    { [sent |-> FALSE, success |-> FALSE, body |-> None],
      [sent |-> TRUE, success |-> FALSE, body |-> None],
      [sent |-> TRUE, success |-> TRUE, body |-> None],
      [sent |-> TRUE, success |-> TRUE,
       body |-> Some(ApiResult(<<[main |-> "Clear"]>>, 107, 209, 54))] }

get_weather_inner(city, reply) ==
    IF ~reply.sent THEN None
    ELSE IF ~reply.success THEN None
    ELSE reply.body

\* f64 as i32 on a value in tenths: the fraction is cut off, towards zero.
AsI32(x) == IF x >= 0 THEN x \div 10 ELSE -((-x) \div 10)

get_weather(city, reply) ==
    LET w == get_weather_inner(city, reply) IN
    IF w # None
    THEN << "Today in", city,
            (IF w[1].weather # <<>> THEN w[1].weather[1].main ELSE "Unknown"),
            "Low temperature:", ToString(AsI32(w[1].main.temp_min)),
            "High temperature:", ToString(AsI32(w[1].main.temp_max)),
            "Wind Speed:", ToString(AsI32(w[1].wind.speed)) >>
    ELSE << "No city or incorrect spelling" >>

\* What get_page_text may answer.
PageTexts == { <<"Err">>, <<"Ok", <<"page text">>>> }

scraper(url, page) ==
    IF page[1] = "Err" THEN << "failed to get webpage" >> ELSE page[2]

\* Local::now().to_rfc3339()
get_time_of_day == << "2023-11-20T10:00:00+00:00" >>

-----------------------------------------------------------------------------
(* State *)

VARIABLES
    store,      \* the session store's value under "in_chat": Option<Value>
    MESSAGES,   \* the conversation, Vec<ChatCompletionRequestMessage>
    lock,       \* the holder of the MESSAGES mutex: Option<handler>
    alive,      \* FALSE once a panic has ended the process
    handled,    \* number of inbound messages delivered so far
    frame,      \* per invocation: the locals of handler and chat_inner
    events      \* per invocation: what its current handling has done so far

vars == <<store, MESSAGES, lock, alive, handled, frame, events>>

\* The locals of an invocation before it has received a message.
NewFrame ==
    [pc |-> "idle", msg |-> <<>>, user_input |-> <<>>, out |-> <<>>,
     wants_to_use_function |-> FALSE, chat |-> ApiErr, tool_calls |-> <<>>,
     k |-> 0, content |-> <<>>, ret |-> <<"unset">>]

\* The session store outlives the process: at start the key may be unset or
\* hold the boolean an earlier run left.
Init ==
    /\ store \in {None, Some(JBool(TRUE)), Some(JBool(FALSE))}
    /\ MESSAGES = InitialMessages
    /\ lock = None
    /\ alive = TRUE
    /\ handled = 0
    /\ frame = [h \in Handlers |-> NewFrame]
    /\ events = [h \in Handlers |-> <<>>]

\* The part of the state one invocation h works on.
Ctx(h) ==
    [h |-> h, store |-> store, MESSAGES |-> MESSAGES, lock |-> lock,
     alive |-> alive, f |-> frame[h], ev |-> events[h]]

\* The step of c.h takes effect.  The locals of another invocation that has
\* returned are kept only until this next step of the process.
Commit(c) ==
    /\ store' = c.store
    /\ MESSAGES' = c.MESSAGES
    /\ lock' = c.lock
    /\ alive' = c.alive
    /\ frame' = [g \in Handlers |->
                    IF g = c.h THEN c.f
                    ELSE IF frame[g].pc = "returned" THEN NewFrame ELSE frame[g]]
    /\ events' = [g \in Handlers |->
                     IF g = c.h THEN c.ev
                     ELSE IF frame[g].pc = "returned" THEN <<>> ELSE events[g]]

Ev(c, tag, data) == [c EXCEPT !.ev = Append(@, <<tag, data>>)]

-----------------------------------------------------------------------------
(* The session store and the channel *)

\* Mutant of set_in_chat: the value stored is the string "true".
set_in_chat_string(c) == Ev([c EXCEPT !.store = Some(JString("true"))], "set", <<>>)

\* Mutant of set_in_chat: a value already stored under the key is kept.
set_in_chat_if_absent(c) ==
    Ev([c EXCEPT !.store = IF @ = None THEN Some(JBool(TRUE)) ELSE @], "set", <<>>)

\* store_flows::set("in_chat", json!(true), None)
set_in_chat(c) == Ev([c EXCEPT !.store = Some(JBool(TRUE))], "set", <<>>)

\* store_flows::del("in_chat")
del_in_chat(c) == Ev([c EXCEPT !.store = None], "del", <<>>)

\* Mutant of in_chat: an unset key reads as true.
in_chat_unset_true(c) == AsBool(UnwrapOr(c.store, JBool(TRUE)))

\* get("in_chat").unwrap_or(json!("false")).as_bool(): the value read for
\* the gate, None when it is no JSON boolean.
in_chat(c) == AsBool(UnwrapOr(c.store, JString("false")))

\* send_message_to_channel(workspace, channel, text).await; the invocation
\* is suspended at pc until the send is done.
send_message_to_channel(c, workspace, channel, text, pc) ==
    Ev([c EXCEPT !.f.pc = pc], "send",
       [workspace |-> workspace, channel |-> channel, text |-> text])

\* The workspace and channel the process listens to and replies on.
slack_workspace == "secondstate"
slack_channel == "test-flow"

\* format!("{:?}", check): the Debug text of a choice.
DebugFmt(choice) == << "Choice", "finish_reason:" >> \o choice.finish_reason

-----------------------------------------------------------------------------
(* How an invocation ends *)

\* A panic (an unwrap of None, a missing HashMap key) ends the process.
Panic(c) == Ev([c EXCEPT !.alive = FALSE, !.f.pc = "panicked"], "panic", <<>>)

\* handler returns.  The MESSAGES guard, if this invocation holds it, is
\* dropped; tokio's mutex hands it to the invocation waiting for it.
Return(c) ==
    LET waiting == {g \in Handlers \ {c.h} : frame[g].pc = "lock_await"}
        next == IF waiting = {} THEN None ELSE Some(CHOOSE g \in waiting : TRUE)
    IN Ev([c EXCEPT !.f.pc = "returned",
                    !.lock = IF c.lock = Some(c.h) THEN next ELSE c.lock],
          "return", <<>>)

\* Mutant of HandlerMatch: Ok(None) is not told apart from an error.
HandlerMatchNoneFallsThrough(c, ret) ==
    LET c1 == Ev([c EXCEPT !.f.ret = ret], "chat_inner", ret) IN
    IF ret[1] = "Ok" /\ ret[2] # None
    THEN send_message_to_channel([c1 EXCEPT !.f.out = ret[2][1]],
                                 slack_workspace, slack_channel, ret[2][1], "send_await")
    ELSE send_message_to_channel(c1, slack_workspace, slack_channel, c1.f.out, "send_await")

\* Mutant of HandlerMatch: the flag is cleared after every answer of
\* chat_inner, a reply included.
HandlerMatchClearsOnReply(c, ret) ==
    LET c1 == Ev([c EXCEPT !.f.ret = ret], "chat_inner", ret) IN
    IF ret[1] = "Ok" /\ ret[2] # None
    THEN send_message_to_channel(del_in_chat([c1 EXCEPT !.f.out = ret[2][1]]),
                                 slack_workspace, slack_channel, ret[2][1], "send_await")
    ELSE IF ret[1] = "Ok"
    THEN Return(del_in_chat(c1))
    ELSE send_message_to_channel(c1, slack_workspace, slack_channel, c1.f.out, "send_await")

\* Mutant of HandlerMatch: on an error the messages this handling has pushed
\* are taken off the conversation again.
HandlerMatchRollsBack(c, ret) ==
    LET c1 == Ev([c EXCEPT !.f.ret = ret], "chat_inner", ret)
        n == Cardinality({i \in DOMAIN c.ev : c.ev[i][1] = "push"})
    IN IF ret[1] = "Ok" /\ ret[2] # None
       THEN send_message_to_channel([c1 EXCEPT !.f.out = ret[2][1]],
                                    slack_workspace, slack_channel, ret[2][1], "send_await")
       ELSE IF ret[1] = "Ok"
       THEN Return(del_in_chat(c1))
       ELSE send_message_to_channel(
                [c1 EXCEPT !.MESSAGES = SubSeq(@, 1, Len(@) - n)],
                slack_workspace, slack_channel, c1.f.out, "send_await")

\* handler's match on what chat_inner returned, and the send after it.
HandlerMatch(c, ret) ==
    LET c1 == Ev([c EXCEPT !.f.ret = ret], "chat_inner", ret) IN
    IF ret[1] = "Ok" /\ ret[2] # None
    THEN send_message_to_channel([c1 EXCEPT !.f.out = ret[2][1]],
                                 slack_workspace, slack_channel, ret[2][1], "send_await")
    ELSE IF ret[1] = "Ok"
    THEN Return(del_in_chat(c1))
    ELSE send_message_to_channel(c1, slack_workspace, slack_channel, c1.f.out, "send_await")

-----------------------------------------------------------------------------
(* chat_inner *)

\* Request #2 is built from the conversation and sent.
Create2(c) ==
    Ev([c EXCEPT !.f.pc = "create2_await"], "create", Request2(c.MESSAGES))

\* Mutant of LastContent: the reply of the model is recorded in the
\* conversation before it is returned.
LastContentRecorded(c, response_inner_last) ==
    LET c1 == Ev(c, "response", response_inner_last) IN
    IF ~response_inner_last.ok THEN HandlerMatch(c1, <<"Err">>)
    ELSE IF response_inner_last.choices = <<>> THEN Panic(c1)
    ELSE LET content == response_inner_last.choices[1].content IN
         IF content # None
         THEN HandlerMatch([c1 EXCEPT !.MESSAGES = Append(@, [role |-> "assistant", name |-> "",
                                                              content |-> content[1]])],
                           <<"Ok", Some(content[1])>>)
         ELSE HandlerMatch(c1, <<"Ok", None>>)

\* The end of chat_inner: the content of the first choice of response #2.
LastContent(c, response_inner_last) ==
    LET c1 == Ev(c, "response", response_inner_last) IN
    IF ~response_inner_last.ok THEN HandlerMatch(c1, <<"Err">>)
    ELSE IF response_inner_last.choices = <<>> THEN Panic(c1)
    ELSE LET content == response_inner_last.choices[1].content IN
         IF content # None THEN HandlerMatch(c1, <<"Ok", Some(content[1])>>)
         ELSE HandlerMatch(c1, <<"Ok", None>>)

\* Mutant of PushFunction: the Function message is built without its name.
PushFunctionUnnamed(c, name, content) ==
    Ev([c EXCEPT !.MESSAGES = Append(@, FunctionMessage("", content))],
       "push", FunctionMessage("", content))

\* messages.push of a Function message named name.
PushFunction(c, name, content) ==
    Ev([c EXCEPT !.MESSAGES = Append(@, FunctionMessage(name, content))],
       "push", FunctionMessage(name, content))

\* The loop goes on with the next tool call.
NextCall(c) == [c EXCEPT !.f.k = @ + 1, !.f.pc = "loop"]

\* Mutant of DispatchWeather: the flag is cleared after the lookup, and only
\* when it gave a report.
DispatchWeatherClearOnSuccess(c, function, reply) ==
    LET argument_obj == FromStr(function.arguments)
        c2 == Ev(c, "from_str", function.arguments)
    IN IF argument_obj[1] = "Err" THEN HandlerMatch(c2, <<"Err">>)
       ELSE IF "city" \notin DOMAIN argument_obj[2] THEN Panic(c2)
       ELSE LET res == get_weather(argument_obj[2]["city"], reply)
                c3 == Ev([c2 EXCEPT !.f.content = res], "call",
                         [name |-> "get_weather", ret |-> res])
                c4 == IF res[1] = "Today in" THEN del_in_chat(c3) ELSE c3
            IN send_message_to_channel(c4, "ik8", "general", res, "weather_send_await")

\* Mutant of DispatchWeather: the arm does not clear the flag.
DispatchWeatherNoClear(c, function, reply) ==
    LET argument_obj == FromStr(function.arguments)
        c2 == Ev(c, "from_str", function.arguments)
    IN IF argument_obj[1] = "Err" THEN HandlerMatch(c2, <<"Err">>)
       ELSE IF "city" \notin DOMAIN argument_obj[2] THEN Panic(c2)
       ELSE LET res == get_weather(argument_obj[2]["city"], reply)
                c3 == Ev([c2 EXCEPT !.f.content = res], "call",
                         [name |-> "get_weather", ret |-> res])
            IN send_message_to_channel(c3, "ik8", "general", res, "weather_send_await")

\* The "getWeather" arm up to the send of the result to the debug channel.
DispatchWeather(c, function, reply) ==
    LET c1 == del_in_chat(c)
        argument_obj == FromStr(function.arguments)
        c2 == Ev(c1, "from_str", function.arguments)
    IN IF argument_obj[1] = "Err" THEN HandlerMatch(c2, <<"Err">>)
       ELSE IF "city" \notin DOMAIN argument_obj[2] THEN Panic(c2)
       ELSE LET res == get_weather(argument_obj[2]["city"], reply)
                c3 == Ev([c2 EXCEPT !.f.content = res], "call",
                         [name |-> "get_weather", ret |-> res])
            IN send_message_to_channel(c3, "ik8", "general", res, "weather_send_await")

\* Mutant of DispatchScraper: the flag is cleared once the arguments have
\* parsed.
DispatchScraperParseFirst(c, function) ==
    LET argument_obj == FromStr(function.arguments)
        c2 == Ev(c, "from_str", function.arguments)
    IN IF argument_obj[1] = "Err" THEN HandlerMatch(c2, <<"Err">>)
       ELSE IF "url" \notin DOMAIN argument_obj[2] THEN Panic(del_in_chat(c2))
       ELSE [del_in_chat(c2) EXCEPT !.f.content = <<argument_obj[2]["url"]>>,
                                    !.f.pc = "scraper_await"]

\* The "scraper" arm up to the await of scraper(url).
DispatchScraper(c, function) ==
    LET c1 == del_in_chat(c)
        argument_obj == FromStr(function.arguments)
        c2 == Ev(c1, "from_str", function.arguments)
    IN IF argument_obj[1] = "Err" THEN HandlerMatch(c2, <<"Err">>)
       ELSE IF "url" \notin DOMAIN argument_obj[2] THEN Panic(c2)
       ELSE [c2 EXCEPT !.f.content = <<argument_obj[2]["url"]>>, !.f.pc = "scraper_await"]

\* The "getTimeOfDay" arm and the push after it.
DispatchTime(c, function) ==
    LET c1 == del_in_chat(c)
        res == get_time_of_day
        c2 == Ev(c1, "call", [name |-> "get_time_of_day", ret |-> res])
    IN NextCall(PushFunction(c2, function.name, res))

\* Mutant of DispatchOther: the default arm clears the flag like the others.
DispatchOtherClears(c, function) ==
    NextCall(PushFunction(del_in_chat(c), function.name, <<>>))

\* The default arm and the push after it.
DispatchOther(c, function) == NextCall(PushFunction(c, function.name, <<>>))

\* One iteration of the loop over tool_calls, up to its await or its push.
Dispatch(c, reply) ==
    LET function == c.f.tool_calls[c.f.k] IN
    CASE function.name = "getWeather" -> DispatchWeather(c, function, reply)
      [] function.name = "scraper" -> DispatchScraper(c, function)
      [] function.name = "getTimeOfDay" -> DispatchTime(c, function)
      [] OTHER -> DispatchOther(c, function)

\* The loop over tool_calls from call k on, up to the next await; after the
\* last call request #2 goes out.
RECURSIVE ToolLoop(_, _)
ToolLoop(c, reply) ==
    IF c.f.k > Len(c.f.tool_calls) THEN Create2(c)
    ELSE LET c1 == Dispatch(c, reply) IN
         IF c1.f.pc = "loop" THEN ToolLoop(c1, reply) ELSE c1

\* Mutant of wants_to_use_function: any first choice that carries tool calls.
wants_if_tool_calls(chat) ==
    IF chat.choices # <<>> THEN chat.choices[1].tool_calls # None ELSE FALSE

\* Whether the first choice of response #1 ended because of tool calls.
wants_to_use_function(chat) ==
    IF chat.choices # <<>>
    THEN chat.choices[1].finish_reason = Some("tool_calls")
    ELSE FALSE

\* Response #1 has arrived: wants_to_use_function, check, and the send of
\* check to the debug channel.
FirstChoice(c, chat) ==
    LET c1 == Ev(c, "response", chat) IN
    IF ~chat.ok THEN HandlerMatch(c1, <<"Err">>)
    ELSE IF chat.choices = <<>> THEN Panic(c1)
    ELSE send_message_to_channel(
             [c1 EXCEPT !.f.chat = chat,
                        !.f.wants_to_use_function = wants_to_use_function(chat)],
             "ik8", "general", DebugFmt(chat.choices[1]), "check_send_await")

\* if wants_to_use_function { ... }, then request #2.
ToolCalls(c, reply) ==
    IF c.f.wants_to_use_function
    THEN LET tool_calls == c.f.chat.choices[1].tool_calls IN
         IF tool_calls = None THEN Panic(c)
         ELSE ToolLoop([c EXCEPT !.f.tool_calls = tool_calls[1], !.f.k = 1, !.f.pc = "loop"], reply)
    ELSE Create2(c)

\* Mutant of chat_inner: every utterance starts the conversation afresh
\* from the System message.
chat_inner_afresh(c) ==
    LET user_msg_obj == UserMessage(c.f.user_input)
        c1 == Ev([c EXCEPT !.MESSAGES = Append(InitialMessages, user_msg_obj)],
                 "push", user_msg_obj)
    IN Ev([c1 EXCEPT !.f.pc = "create1_await"], "create", Request1(c1.MESSAGES))

\* The start of chat_inner: the User message is pushed, request #1 is built
\* from the conversation and sent.
chat_inner(c) ==
    LET user_msg_obj == UserMessage(c.f.user_input)
        c1 == Ev([c EXCEPT !.MESSAGES = Append(@, user_msg_obj)], "push", user_msg_obj)
    IN Ev([c1 EXCEPT !.f.pc = "create1_await"], "create", Request1(c1.MESSAGES))

-----------------------------------------------------------------------------
(* handler *)

\* The guard is taken and chat_inner entered.
Locked(c) == chat_inner(Ev([c EXCEPT !.lock = Some(c.h)], "lock", <<>>))

\* Mutant of LockMessages: chat_inner is entered without waiting for the
\* guard.
LockMessagesNoWait(c) == Locked(c)

\* MESSAGES.lock().await: taken at once when free, else the invocation waits.
LockMessages(c) ==
    IF c.lock = None THEN Locked(c) ELSE Ev([c EXCEPT !.f.pc = "lock_await"], "wait", <<>>)

\* The user_input of a message that starts with the trigger word.
Stripped(msg) == Replace(msg, trigger_word, <<>>)

\* handler from its entry to the first await.
handler(c, msg) ==
    LET c0 == [c EXCEPT !.f = [NewFrame EXCEPT !.msg = msg, !.pc = "running"], !.ev = <<>>] IN
    IF StartsWith(msg, trigger_word)
    THEN LockMessages(set_in_chat([c0 EXCEPT !.f.user_input = Stripped(msg)]))
    ELSE LET c1 == Ev(c0, "get", c0.store) IN
         IF in_chat(c1) = None THEN Panic(c1)
         ELSE IF ~in_chat(c1)[1] THEN Return(c1)
         ELSE LockMessages([c1 EXCEPT !.f.user_input = msg])

-----------------------------------------------------------------------------
(* Actions: the code of one invocation between two suspension points *)

At(h, pc) == alive /\ frame[h].pc = pc

Free(h) == frame[h].pc \in {"idle", "returned"}

\* listen_to_channel delivers a message; the first free invocation handles
\* it (the invocations are interchangeable).
Receive(h) ==
    /\ alive
    /\ Free(h)
    /\ \A g \in Handlers : g < h => ~Free(g)
    /\ handled < MaxHandlings
    /\ handled' = handled + 1
    /\ \E msg \in InboundTexts : Commit(handler(Ctx(h), msg))

\* The waiting invocation is given the MESSAGES guard.
Acquire(h) ==
    /\ At(h, "lock_await")
    /\ lock = Some(h)
    /\ Commit(chat_inner(Ev(Ctx(h), "lock", <<>>)))
    /\ UNCHANGED handled

\* The answer to request #1 arrives.
Created1(h) ==
    /\ At(h, "create1_await")
    /\ \E chat \in Responses1 : Commit(FirstChoice(Ctx(h), chat))
    /\ UNCHANGED handled

\* The send of check is done.
CheckSent(h) ==
    /\ At(h, "check_send_await")
    /\ \E reply \in ProviderReplies : Commit(ToolCalls(Ctx(h), reply))
    /\ UNCHANGED handled

\* The send of the weather result is done: it is pushed and the loop goes on.
WeatherSent(h) ==
    /\ At(h, "weather_send_await")
    /\ \E reply \in ProviderReplies :
          LET c == Ctx(h) IN
          Commit(ToolLoop(NextCall(PushFunction(c, c.f.tool_calls[c.f.k].name, c.f.content)), reply))
    /\ UNCHANGED handled

\* scraper(url) is done: its result is pushed and the loop goes on.
Scraped(h) ==
    /\ At(h, "scraper_await")
    /\ \E page \in PageTexts, reply \in ProviderReplies :
          LET c == Ctx(h)
              res == scraper(c.f.content[1], page)
              c1 == Ev([c EXCEPT !.f.content = res], "call", [name |-> "scraper", ret |-> res])
          IN Commit(ToolLoop(NextCall(PushFunction(c1, c.f.tool_calls[c.f.k].name, res)), reply))
    /\ UNCHANGED handled

\* The answer to request #2 arrives.
Created2(h) ==
    /\ At(h, "create2_await")
    /\ \E response_inner_last \in Responses2 : Commit(LastContent(Ctx(h), response_inner_last))
    /\ UNCHANGED handled

\* handler's send is done and handler returns.
Sent(h) ==
    /\ At(h, "send_await")
    /\ Commit(Return(Ctx(h)))
    /\ UNCHANGED handled

Next ==
    \E h \in Handlers :
        \/ Receive(h)
        \/ Acquire(h)
        \/ Created1(h)
        \/ CheckSent(h)
        \/ WeatherSent(h)
        \/ Scraped(h)
        \/ Created2(h)
        \/ Sent(h)

Spec == Init /\ [][Next]_vars

-----------------------------------------------------------------------------
(* What a handling has done, read from its events *)

\* The positions in the events of h that carry the tag.
Idx(h, tag) == {i \in DOMAIN events[h] : events[h][i][1] = tag}

\* The message h handles starts with the trigger word.
Trigger(h) == StartsWith(frame[h].msg, trigger_word)

\* A send to the channel the process replies on.
IsReply(e) ==
    e[1] = "send" /\ e[2].workspace = slack_workspace /\ e[2].channel = slack_channel

TrueFlag == Some(JBool(TRUE))

-----------------------------------------------------------------------------
(* C1 *)

\* C1: a message that does not start with the trigger word, received while
\* the flag is false or absent, ends its handling in the same step with no
\* model request, no send, no push, and the conversation, the flag and the
\* lock as they were.
C1_DiscardedUntouched ==
    [][\A h \in Handlers :
          (Receive(h) /\ ~StartsWith(frame'[h].msg, trigger_word) /\ store # TrueFlag)
          => /\ MESSAGES' = MESSAGES
             /\ store' = store
             /\ lock' = lock
             /\ frame'[h].pc \in {"returned", "panicked"}
             /\ \A i \in DOMAIN events'[h] :
                   events'[h][i][1] \notin {"create", "send", "push", "set", "del", "lock"}]_vars

\* A message without the trigger word was handled with the flag absent,
\* after an earlier handling.
C1_Witness ==
    \E h \in Handlers :
        /\ handled >= 2
        /\ frame[h].msg # <<>>
        /\ ~Trigger(h)
        /\ events[h][1] = <<"get", None>>
        /\ Idx(h, "create") = {}

-----------------------------------------------------------------------------
(* C2 *)

\* C2: a message without the trigger word that finds no value under
\* "in_chat" is discarded by a normal return of handler.
C2_AbsentReadsFalse ==
    \A h \in Handlers :
        (events[h] # <<>> /\ events[h][1] = <<"get", None>>)
        => (alive /\ frame[h].pc = "returned")

-----------------------------------------------------------------------------
(* C3 *)

\* The set of the flag is the first thing a trigger-word handling does.
C3_SetFirst ==
    \A h \in Handlers : (Trigger(h) /\ events[h] # <<>>) => events[h][1][1] = "set"

\* C3: for a message that starts with the trigger word the flag is true
\* when handler reaches the lock, whatever it was, and the set comes before
\* the lock, the push of the User message and request #1.
C3_SetBeforeLoop ==
    /\ []C3_SetFirst
    /\ [][\A h \in Handlers :
             (Receive(h) /\ StartsWith(frame'[h].msg, trigger_word))
             => (store' = TrueFlag /\ frame'[h].pc \in {"lock_await", "create1_await"})]_vars

\* A trigger-word message has entered chat_inner after earlier handlings
\* had left the flag absent.
C3_Witness ==
    \E h \in Handlers :
        /\ Trigger(h)
        /\ frame[h].pc = "create1_await"
        /\ handled >= 2
        /\ store = TrueFlag

-----------------------------------------------------------------------------
(* C4 *)

\* C4: the User message pushed for a trigger-word message carries the text
\* with only the leading trigger word cut off.
C4_OnlyPrefixStripped ==
    \A h \in Handlers : \A i \in Idx(h, "push") :
        (Trigger(h) /\ events[h][i][2].role = "user")
        => events[h][i][2].content = StripPrefix(frame[h].msg, trigger_word)

-----------------------------------------------------------------------------
(* C5 *)

\* h is inside the tool dispatch of chat_inner or at request #2 after it.
InDispatch(h) == frame[h].pc \in {"weather_send_await", "scraper_await", "create2_await"}

\* C5 as stated: once a handling has cleared the flag for a tool call, the
\* flag is not true for the rest of that dispatch.
C5_StaysCleared ==
    \A h \in Handlers : (InDispatch(h) /\ Idx(h, "del") # {}) => store # TrueFlag

\* Every capability call of a handling comes after a clear of the flag, with
\* nothing but the parse of the arguments between them, and the handling
\* sets the flag nowhere after a clear.
C5_ClearedBeforeResult ==
    \A h \in Handlers :
        /\ \A i \in Idx(h, "call") :
              \E j \in Idx(h, "del") :
                  j < i /\ \A m \in (j + 1)..(i - 1) : events[h][m][1] = "from_str"
        /\ \A i \in Idx(h, "del") : \A j \in Idx(h, "set") : j < i

\* The events a step has added to the handling of h.
Added(h) ==
    IF Len(events'[h]) > Len(events[h]) /\ SubSeq(events'[h], 1, Len(events[h])) = events[h]
    THEN SubSeq(events'[h], Len(events[h]) + 1, Len(events'[h]))
    ELSE <<>>

\* C5, amended: a recognised tool call clears the flag before the tool's
\* result is known, whatever the result; the handling does not set it again,
\* every step of the dispatch that clears it leaves it absent, and the flag
\* becomes true again only by a trigger-word message received by an
\* invocation.
C5_ClearedUnlessTriggered ==
    /\ []C5_ClearedBeforeResult
    /\ [][\A h \in Handlers :
             (\E i \in DOMAIN Added(h) : Added(h)[i][1] = "del") => store' = None]_vars
    /\ [][(store' = TrueFlag /\ store # TrueFlag)
             => \E g \in Handlers :
                   Receive(g) /\ StartsWith(frame'[g].msg, trigger_word)]_vars

\* A dispatch has called two tools, the weather lookup gave its fallback
\* string, and the flag is absent at request #2.
C5_Witness ==
    \E h \in Handlers :
        /\ frame[h].pc = "create2_await"
        /\ Cardinality(Idx(h, "call")) = 2
        /\ \E i \in Idx(h, "call") : events[h][i][2].ret = <<"No city or incorrect spelling">>
        /\ store = None

-----------------------------------------------------------------------------
(* C6 *)

\* The first choice of response #1 of h did not end because of tool calls.
NoToolCalls(h) ==
    /\ frame[h].chat.ok
    /\ frame[h].chat.choices # <<>>
    /\ frame[h].chat.choices[1].finish_reason # Some("tool_calls")

\* C6: without the tool-call finish reason chat_inner calls no capability,
\* parses no arguments, pushes no Function message, neither sets nor clears
\* the flag, issues request #2 after the send of check, and returns the
\* content of the first choice of response #2 as it is.
C6_NoDispatchSecondRound ==
    \A h \in Handlers :
        NoToolCalls(h) =>
            /\ Idx(h, "call") = {}
            /\ Idx(h, "from_str") = {}
            /\ \A i \in Idx(h, "push") : events[h][i][2].role # "function"
            /\ \A i \in Idx(h, "set") \cup Idx(h, "del") :
                  \/ \A j \in Idx(h, "lock") : i < j
                  \/ \E j \in Idx(h, "chat_inner") : j < i
            /\ (frame[h].pc # "check_send_await" =>
                    /\ Cardinality(Idx(h, "create")) = 2
                    /\ \E i \in Idx(h, "create") : events[h][i][2] = Request2(MESSAGES))
            /\ \A i \in Idx(h, "chat_inner") :
                  /\ events[h][i - 1][1] = "response"
                  /\ LET r == events[h][i - 1][2] IN
                     IF r.ok THEN events[h][i][2] = <<"Ok", r.choices[1].content>>
                     ELSE events[h][i][2] = <<"Err">>

\* A handling whose response #1 carried tool calls under another finish
\* reason has returned the text of response #2.
C6_Witness ==
    \E h \in Handlers :
        /\ NoToolCalls(h)
        /\ frame[h].chat.choices[1].tool_calls # None
        /\ frame[h].ret = <<"Ok", Some(<<"final">>)>>
        /\ frame[h].pc = "returned"

-----------------------------------------------------------------------------
(* C7 *)

\* The first choice of response #1 of h ended because of tool calls and
\* carries a list of them.
RequestsTools(h) ==
    /\ frame[h].chat.ok
    /\ frame[h].chat.choices # <<>>
    /\ frame[h].chat.choices[1].finish_reason = Some("tool_calls")
    /\ frame[h].chat.choices[1].tool_calls # None

\* The tool calls t1..tn of response #1 of h.
Requested(h) == frame[h].chat.choices[1].tool_calls[1]

\* The arguments of the call decode as a string-keyed mapping, where the
\* dispatch decodes them at all.
ArgsParse(t) ==
    t.name \in {"getWeather", "scraper"} => FromStr(t.arguments)[1] = "Ok"

\* The arguments decode and hold the key the dispatch reads.
ArgsComplete(t) ==
    /\ ArgsParse(t)
    /\ t.name = "getWeather" => "city" \in DOMAIN FromStr(t.arguments)[2]
    /\ t.name = "scraper" => "url" \in DOMAIN FromStr(t.arguments)[2]

\* The capability function that answers a tool name, "" for none.
Capability(name) ==
    CASE name = "getWeather" -> "get_weather"
      [] name = "scraper" -> "scraper"
      [] name = "getTimeOfDay" -> "get_time_of_day"
      [] OTHER -> ""

\* The capability calls of h in their order.
Calls(h) == SelectSeq(events[h], LAMBDA e : e[1] = "call")

\* h has left the loop over the tool calls, or was ended in it.
LoopLeft(h) ==
    frame[h].pc \in {"create2_await", "send_await", "returned", "panicked"}

\* Request #2 has gone out, and the conversation ends with the User message
\* of h followed by one Function message per requested call, in order, each
\* with the call's name and what its capability function returned.
FunctionMessagesAppended(h) ==
    LET b == Requested(h)
        n == Len(b)
        L == Len(MESSAGES)
        nth(i) == Cardinality({j \in 1..i : Capability(b[j].name) # ""})
    IN /\ Cardinality(Idx(h, "create")) = 2
       /\ Cardinality({i \in Idx(h, "push") : events[h][i][2].role = "function"}) = n
       /\ Len(Calls(h)) = nth(n)
       /\ L >= n + 2
       /\ MESSAGES[L - n] = UserMessage(frame[h].user_input)
       /\ \A i \in 1..n :
             /\ MESSAGES[L - n + i].role = "function"
             /\ MESSAGES[L - n + i].name = b[i].name
             /\ IF Capability(b[i].name) = ""
                THEN MESSAGES[L - n + i].content = <<>>
                ELSE /\ Calls(h)[nth(i)][2].name = Capability(b[i].name)
                     /\ MESSAGES[L - n + i].content = Calls(h)[nth(i)][2].ret

\* C7 as stated: when the arguments of all requested calls parse, the loop
\* appends the n Function messages.
C7_AppendedWhenParsed ==
    \A h \in Handlers :
        (RequestsTools(h) /\ LoopLeft(h) /\ \A i \in DOMAIN Requested(h) : ArgsParse(Requested(h)[i]))
        => FunctionMessagesAppended(h)

\* C7, amended: when the arguments of all requested calls parse and hold
\* the key the tool reads, the loop appends the n Function messages.
C7_AppendedWhenComplete ==
    \A h \in Handlers :
        (RequestsTools(h) /\ LoopLeft(h) /\ \A i \in DOMAIN Requested(h) : ArgsComplete(Requested(h)[i]))
        => FunctionMessagesAppended(h)

\* Two requested calls, the second to a name outside the dispatch table,
\* have been answered and request #2 is out.
C7_Witness ==
    \E h \in Handlers :
        /\ RequestsTools(h)
        /\ frame[h].pc = "create2_await"
        /\ Len(Requested(h)) = 2
        /\ \A i \in DOMAIN Requested(h) : ArgsComplete(Requested(h)[i])
        /\ \E i \in DOMAIN Requested(h) : Capability(Requested(h)[i].name) = ""
        /\ handled >= 2

-----------------------------------------------------------------------------
(* C8 *)

\* The events of h that the order of C8 is about.
C8_Order(h) ==
    LET kept == SelectSeq(events[h],
                   LAMBDA e : \/ e[1] \in {"set", "create", "del", "send"}
                              \/ (e[1] = "push" /\ e[2].role = "function"))
    IN [i \in DOMAIN kept |-> kept[i][1]]

\* The weather scenario of C8 has run to handler's send of the final text.
C8_Scenario(h) ==
    /\ Trigger(h)
    /\ RequestsTools(h)
    /\ Requested(h) = <<ToolCall("getWeather", ArgsCity)>>
    /\ frame[h].ret[1] = "Ok"
    /\ frame[h].ret[2] # None
    /\ frame[h].pc \in {"send_await", "returned"}

\* C8: a trigger-word handling in which the model asks for getWeather and
\* response #2 carries the final text does, in this order: set of the flag,
\* request #1, push of the Function message, clear of the flag, request #2,
\* send; and the final text is the only message sent anywhere.
C8_WeatherScenarioOrder ==
    \A h \in Handlers :
        C8_Scenario(h)
        => /\ C8_Order(h) = <<"set", "create", "push", "del", "create", "send">>
           /\ \A i \in Idx(h, "send") : events[h][i][2].text = frame[h].out

\* The sends of h in their order.
Sends(h) == SelectSeq(events[h], LAMBDA e : e[1] = "send")

\* C8, amended: the order is set of the flag, request #1, send of the first
\* choice to ik8/general, clear of the flag, send of the weather string to
\* ik8/general, push of the Function message, request #2, send of the final
\* text; the final text is the only message sent to the reply channel.
C8_WeatherScenarioAsCoded ==
    \A h \in Handlers :
        C8_Scenario(h) =>
            /\ C8_Order(h) = <<"set", "create", "send", "del", "send", "push", "create", "send">>
            /\ Len(Sends(h)) = 3
            /\ Sends(h)[1][2] = [workspace |-> "ik8", channel |-> "general",
                                 text |-> DebugFmt(frame[h].chat.choices[1])]
            /\ Sends(h)[2][2] = [workspace |-> "ik8", channel |-> "general",
                                 text |-> Calls(h)[1][2].ret]
            /\ Sends(h)[3][2] = [workspace |-> slack_workspace, channel |-> slack_channel,
                                 text |-> frame[h].ret[2][1]]

\* The weather scenario has run to its end with the provider's report.
C8_Witness ==
    \E h \in Handlers :
        /\ C8_Scenario(h)
        /\ frame[h].pc = "returned"
        /\ frame[h].out = <<"final">>
        /\ Calls(h)[1][2].ret[1] = "Today in"

-----------------------------------------------------------------------------
(* C9 *)

\* Response #2 of h has a first choice, and that choice has no content.
SecondWithoutContent(h) ==
    \E i \in Idx(h, "response") :
        /\ Cardinality({j \in Idx(h, "response") : j < i}) = 1
        /\ events[h][i][2].ok
        /\ events[h][i][2].choices # <<>>
        /\ events[h][i][2].choices[1].content = None

\* C9: when the first choice of response #2 has no content, chat_inner
\* returns Ok(None); handler then clears the flag and returns; nothing was
\* sent to the reply channel, and nothing at all after request #2.
C9_NoneClearsAndIsSilent ==
    \A h \in Handlers :
        SecondWithoutContent(h) =>
            /\ frame[h].ret = <<"Ok", None>>
            /\ frame[h].pc = "returned"
            /\ store = None
            /\ LET n == Len(events[h]) IN
               /\ n >= 4
               /\ events[h][n - 2] = <<"chat_inner", <<"Ok", None>>>>
               /\ events[h][n - 1][1] = "del"
               /\ events[h][n][1] = "return"
               /\ events[h][n - 3][1] = "response"
            /\ \A i \in Idx(h, "send") :
                  /\ ~IsReply(events[h][i])
                  /\ \E j \in Idx(h, "create") : i < j

\* A trigger-word handling has returned after a response #2 without
\* content.
C9_Witness ==
    \E h \in Handlers :
        /\ SecondWithoutContent(h)
        /\ Trigger(h)
        /\ frame[h].pc = "returned"
        /\ Idx(h, "call") = {}

-----------------------------------------------------------------------------
(* C10 *)

\* C10: when chat_inner returns an error, handler sends nothing to the
\* reply channel, not even an empty text.
C10_ErrorIsSilent ==
    \A h \in Handlers :
        frame[h].ret = <<"Err">> => \A i \in Idx(h, "send") : ~IsReply(events[h][i])

-----------------------------------------------------------------------------
(* C11 *)

\* s is a prefix of t.
IsPrefix(s, t) == Len(s) <= Len(t) /\ SubSeq(t, 1, Len(s)) = s

\* The conversation starts with a System message and holds no other one.
C11_OneSystemFirst ==
    /\ MESSAGES # <<>>
    /\ MESSAGES[1].role = "system"
    /\ \A i \in 2..Len(MESSAGES) : MESSAGES[i].role # "system"

\* C11: in every reachable state the conversation has a System message as
\* its first element and exactly one System message, and every step of any
\* handling, whether it succeeds, returns None, fails or is discarded, leaves
\* the conversation it found as a prefix of the one it leaves.
C11_SystemFirstAppendOnly ==
    /\ []C11_OneSystemFirst
    /\ [][IsPrefix(MESSAGES, MESSAGES')]_vars

\* A handling that ends by an error has left its User message and a Function
\* message behind the messages of an earlier handling.
C11_Witness ==
    \E h \in Handlers :
        /\ frame[h].pc = "send_await"
        /\ frame[h].ret = <<"Err">>
        /\ Cardinality(Idx(h, "push")) = 2
        /\ Len(MESSAGES) >= 5
        /\ MESSAGES[Len(MESSAGES)].role = "function"

-----------------------------------------------------------------------------
(* C12 *)

\* The event at position j of the handling of h, after the step, is a clear
\* of the flag by a tool arm inside chat_inner: chat_inner has not returned,
\* and the parse of the arguments or the capability call follows at once.
ToolClear(h, j) ==
    /\ events'[h][j][1] = "del"
    /\ frame'[h].wants_to_use_function
    /\ \A i \in 1..j : events'[h][i][1] # "chat_inner"
    /\ j < Len(events'[h])
    /\ events'[h][j + 1][1] \in {"from_str", "call"}

\* The event at position j is handler's clear after chat_inner returned
\* Ok(None).
NoneClear(h, j) ==
    /\ events'[h][j][1] = "del"
    /\ j > 1
    /\ events'[h][j - 1] = <<"chat_inner", <<"Ok", None>>>>

\* A handling without tool calls that got a text from response #2 has
\* cleared the flag nowhere.
C12_ReplyClearsNothing ==
    \A h \in Handlers :
        (NoToolCalls(h) /\ frame[h].ret[1] = "Ok" /\ frame[h].ret[2] # None)
        => Idx(h, "del") = {}

\* C12: the flag goes from true to another value only in a step that clears
\* it in a tool arm of chat_inner or in handler after chat_inner returned
\* Ok(None); a handling in which the model asks for no tool and response #2
\* has content clears nothing, so that exchanges of this kind, however many
\* in a row, leave a true flag true.
C12_ClearedOnlyByToolOrNone ==
    /\ []C12_ReplyClearsNothing
    /\ [][(store = TrueFlag /\ store' # TrueFlag)
             => \E h \in Handlers : \E j \in (Len(events[h]) + 1)..Len(events'[h]) :
                   /\ Added(h) # <<>>
                   /\ (ToolClear(h, j) \/ NoneClear(h, j))]_vars

\* Three exchanges in a row have pushed a User message and nothing else;
\* the last, for a message without the trigger word that found the flag
\* true, has returned the text of response #2 and the flag is still true.
C12_Witness ==
    \E h \in Handlers :
        /\ handled = MaxHandlings
        /\ ~Trigger(h)
        /\ NoToolCalls(h)
        /\ frame[h].ret = <<"Ok", Some(<<"final">>)>>
        /\ frame[h].pc = "returned"
        /\ Len(MESSAGES) = 1 + MaxHandlings
        /\ \A i \in 2..Len(MESSAGES) : MESSAGES[i].role = "user"
        /\ store = TrueFlag

-----------------------------------------------------------------------------
(* C13 *)

\* h is between acquiring the lock and the end of its handling.
Inside(h) ==
    frame[h].pc \in {"create1_await", "check_send_await", "weather_send_await",
                     "scraper_await", "create2_await", "send_await"}

\* The messages h has pushed, in their order.
Pushed(h) ==
    LET p == SelectSeq(events[h], LAMBDA e : e[1] = "push") IN
    [i \in DOMAIN p |-> p[i][2]]

\* While h is inside, it holds the lock and no other invocation is inside;
\* the conversation ends with the messages h has pushed, with nothing of
\* another handling among them; every request of h carried a prefix of that
\* conversation.  An invocation that waits at the lock has neither pushed a
\* message nor built a request.
C13_Exclusive ==
    \A h \in Handlers :
        /\ Inside(h) =>
              /\ lock = Some(h)
              /\ \A g \in Handlers \ {h} : ~Inside(g)
              /\ Len(Pushed(h)) >= 1
              /\ Len(MESSAGES) > Len(Pushed(h))
              /\ SubSeq(MESSAGES, Len(MESSAGES) - Len(Pushed(h)) + 1, Len(MESSAGES)) = Pushed(h)
              /\ \A i \in Idx(h, "create") : IsPrefix(events[h][i][2].messages, MESSAGES)
        /\ frame[h].pc = "lock_await" =>
              /\ lock # None
              /\ Idx(h, "push") = {}
              /\ Idx(h, "create") = {}
              /\ Idx(h, "lock") = {}

\* C13: from the acquisition of the lock to the end of a handling no other
\* invocation reads or appends to the conversation; a second invocation
\* waits at the lock, and the User and Function messages of two handlings
\* are never interleaved.
C13_OneHandlingAtATime ==
    /\ []C13_Exclusive
    /\ [][MESSAGES' # MESSAGES
             => \E h \in Handlers :
                   /\ lock \in {None, Some(h)}
                   /\ lock' = Some(h)
                   /\ frame'[h] # frame[h]
                   /\ \A g \in Handlers \ {h} : ~Inside(g) /\ ~Inside(g)']_vars

\* One invocation has pushed a Function message and awaits the answer to
\* request #2 while the other waits at the lock.
C13_Witness ==
    \E h \in Handlers : \E g \in Handlers \ {h} :
        /\ frame[h].pc = "create2_await"
        /\ \E i \in Idx(h, "push") : events[h][i][2].role = "function"
        /\ frame[g].pc = "lock_await"
        /\ Idx(g, "wait") # {}

-----------------------------------------------------------------------------
(* C14 *)

\* The model requests of h in their order.
Requests(h) ==
    LET r == SelectSeq(events[h], LAMBDA e : e[1] = "create") IN
    [i \in DOMAIN r |-> r[i][2]]

\* chat_inner of h has returned Ok.
Completed(h) == frame[h].ret[1] = "Ok"

\* The position of request #2 in the events of h.
Second(h) == CHOOSE i \in Idx(h, "create") : \A j \in Idx(h, "create") : j <= i

\* h has issued two requests.  The first carried the conversation up to the
\* User message of h and the tool list; the second carried the whole
\* conversation, Function messages of h included, and no tools.  Every
\* parse, capability call and push of the handling lies before request #2:
\* there is one dispatch at most, and what response #2 asks for is left
\* alone.
C14_Rounds(h) ==
    LET r == Requests(h)
        nf == Cardinality({i \in Idx(h, "push") : events[h][i][2].role = "function"})
    IN /\ Len(r) = 2
       /\ Cardinality(Idx(h, "response")) = 2
       /\ r[1].messages = SubSeq(MESSAGES, 1, Len(MESSAGES) - nf)
       /\ r[1].messages[Len(r[1].messages)] = UserMessage(frame[h].user_input)
       /\ r[1].tools = Some(TOOLS)
       /\ r[2].messages = MESSAGES
       /\ r[2].tools = None
       /\ \A i \in Idx(h, "from_str") \cup Idx(h, "call") \cup Idx(h, "push") : i < Second(h)
       /\ \A i \in Idx(h, "del") : i < Second(h) \/ frame[h].ret = <<"Ok", None>>

-----------------------------------------------------------------------------
(* C15 *)

\* The Function messages h has pushed, in their order.
FunctionPushes(h) == SelectSeq(Pushed(h), LAMBDA m : m.role = "function")

\* The clears of the flag h has made inside chat_inner.
DispatchClears(h) ==
    {i \in Idx(h, "del") : \A j \in Idx(h, "chat_inner") : i < j}

\* The loop of h over the requested calls has begun.  Of the calls it has
\* reached, only those with a name of the dispatch table have cleared the
\* flag, had their arguments parsed or a capability called; each Function
\* message carries the name of its call, with empty content where the name
\* is not in the table; the loop has gone past every such call, and after
\* the last call request #2 is out.
C15_OtherNamePushedEmpty ==
    \A h \in Handlers :
        (RequestsTools(h) /\ frame[h].k >= 1) =>
            LET b == Requested(h)
                reached == {j \in DOMAIN b : j <= frame[h].k}
                F == FunctionPushes(h)
            IN /\ frame[h].tool_calls = b
               /\ Cardinality(DispatchClears(h))
                     = Cardinality({j \in reached : Capability(b[j].name) # ""})
               /\ Cardinality(Idx(h, "from_str"))
                     = Cardinality({j \in reached : b[j].name \in {"getWeather", "scraper"}})
               /\ Cardinality(Idx(h, "call"))
                     <= Cardinality({j \in reached : Capability(b[j].name) # ""})
               /\ Len(F) <= Len(b)
               /\ \A i \in DOMAIN F :
                     /\ F[i].name = b[i].name
                     /\ Capability(b[i].name) = "" => F[i].content = <<>>
               /\ \A j \in reached :
                     Capability(b[j].name) = "" => (j < frame[h].k /\ j <= Len(F))
               /\ (frame[h].k > Len(b) /\ alive) => Cardinality(Idx(h, "create")) = 2

\* C15: for a tool call whose name is none of getWeather, scraper and
\* getTimeOfDay, chat_inner calls no capability, does not parse the
\* arguments and leaves the flag as it is; it still pushes a Function message
\* with that name and empty content, and goes on with the remaining calls
\* and request #2.
C15_UnknownToolIsAnswered ==
    /\ []C15_OtherNamePushedEmpty
    /\ [][\A h \in Handlers :
             (/\ Added(h) # <<>>
              /\ \A i \in DOMAIN Added(h) : Added(h)[i][1] \notin {"set", "del"})
             => store' = store]_vars

\* The only requested call names a tool outside the table, its arguments do
\* not even parse; the Function message is pushed, request #2 is out and the
\* flag is still true.
C15_Witness ==
    \E h \in Handlers :
        /\ RequestsTools(h)
        /\ Requested(h) = <<ToolCall("translate", ArgsCut)>>
        /\ frame[h].pc = "create2_await"
        /\ MESSAGES[Len(MESSAGES)] = FunctionMessage("translate", <<>>)
        /\ Requests(h)[2].messages = MESSAGES
        /\ store = TrueFlag

-----------------------------------------------------------------------------
(* C16 *)

\* The loop of h stands at a getWeather or scraper call whose arguments
\* decode as a mapping without the key the arm reads.
AtCallWithoutKey(h) ==
    /\ RequestsTools(h)
    /\ frame[h].k \in DOMAIN Requested(h)
    /\ frame[h].tool_calls = Requested(h)
    /\ Requested(h)[frame[h].k].name \in {"getWeather", "scraper"}
    /\ ArgsParse(Requested(h)[frame[h].k])
    /\ ~ArgsComplete(Requested(h)[frame[h].k])

\* C16: when the arguments of a getWeather or scraper call parse as a
\* mapping that lacks the required key, chat_inner returns an error to
\* handler, the process goes on, and no Function message is pushed for that
\* call.
C16_MissingKeyIsError ==
    \A h \in Handlers :
        AtCallWithoutKey(h) =>
            /\ alive
            /\ frame[h].pc # "panicked"
            /\ frame[h].ret = <<"Err">>
            /\ Len(FunctionPushes(h)) = frame[h].k - 1

-----------------------------------------------------------------------------
(* C17 *)

\* The parses of h that failed.
FailedParses(h) == {i \in Idx(h, "from_str") : FromStr(events[h][i][2])[1] = "Err"}

\* chat_inner of h has returned the error of a parse of tool arguments.
ParseFailed(h) == frame[h].ret = <<"Err">> /\ FailedParses(h) # {}

\* C17 as stated: a handling whose dispatch ends by the parse error of a
\* recognised tool call has cleared the flag nowhere.
C17_NoClearOnParseError ==
    \A h \in Handlers : ParseFailed(h) => Idx(h, "del") = {}

\* The clear of the arm stands right before the parse that failed; the
\* handling has set the flag nowhere after it, and handler has cleared
\* nothing after the error.
C17_ClearPrecedesParse ==
    \A h \in Handlers :
        ParseFailed(h) =>
            \A i \in FailedParses(h) :
                /\ i > 1
                /\ events[h][i - 1][1] = "del"
                /\ events[h][i + 1] = <<"chat_inner", <<"Err">>>>
                /\ \A j \in Idx(h, "set") \cup Idx(h, "del") : j < i

\* C17, amended: the arm of a recognised tool call clears the flag before it
\* parses the arguments, so the step in which the parse fails leaves the flag
\* absent, and the rest of the handling neither clears nor sets it.
C17_ClearedDespiteParseError ==
    /\ []C17_ClearPrecedesParse
    /\ [][\A h \in Handlers :
             (\E i \in DOMAIN Added(h) :
                 Added(h)[i][1] = "from_str" /\ FromStr(Added(h)[i][2])[1] = "Err")
             => store' = None]_vars
    /\ [][\A h \in Handlers :
             (ParseFailed(h) /\ Added(h) # <<>>) => store' = store]_vars

\* A trigger-word handling whose scraper call carried arguments that do not
\* parse has returned, and the flag it had set is absent.
C17_Witness ==
    \E h \in Handlers :
        /\ ParseFailed(h)
        /\ Trigger(h)
        /\ frame[h].tool_calls[frame[h].k].name = "scraper"
        /\ frame[h].pc = "returned"
        /\ store = None

-----------------------------------------------------------------------------
(* C18 *)

\* h has got a text from response #2 in an exchange without tool calls.
RepliedWithoutTools(h) ==
    /\ NoToolCalls(h)
    /\ frame[h].ret[1] = "Ok"
    /\ frame[h].ret[2] # None
    /\ frame[h].pc \in {"send_await", "returned"}

\* A trigger-word handling that got the lock without waiting, as every
\* handling of a serial order does, ends an exchange without tool calls with
\* the flag true.  While a trigger-word handling waits at the lock and the
\* flag it has set is no longer true, the holder of the lock has cleared it.
C18_SerialKeepsFlag ==
    \A h \in Handlers :
        /\ (Trigger(h) /\ RepliedWithoutTools(h) /\ Idx(h, "wait") = {})
              => store = TrueFlag
        /\ (Trigger(h) /\ frame[h].pc = "lock_await" /\ store # TrueFlag /\ lock # Some(h))
              => \E g \in Handlers \ {h} : lock = Some(g) /\ Idx(g, "del") # {}

\* C18: the set of the flag is not serialised by the lock.  A trigger-word
\* handler sets the flag true before it has the lock, also while another
\* invocation holds it; a clear by the holder then overwrites that set, and
\* the waiting handling can end an exchange without tool calls with the flag
\* not true, which no handling that did not wait at the lock does.
C18_UnguardedFlag ==
    /\ []C18_SerialKeepsFlag
    /\ [][\A h \in Handlers :
             (Receive(h) /\ StartsWith(frame'[h].msg, trigger_word) /\ lock # None)
             => /\ store' = TrueFlag
                /\ lock' = lock
                /\ frame'[h].pc = "lock_await"
                /\ [i \in DOMAIN events'[h] |-> events'[h][i][1]] = <<"set", "wait">>]_vars
    /\ [][\A h \in Handlers :
             (/\ \E g \in Handlers \ {h} : frame[g].pc = "lock_await" /\ Trigger(g)
              /\ \E i \in DOMAIN Added(h) : Added(h)[i][1] = "del")
             => store' = None]_vars

\* B has set the flag and waited at the lock while A dispatched a tool; B
\* has then pushed its User message behind A's Function message, got the
\* text of response #2 without tool calls, and returned with the flag
\* absent.
C18_Witness ==
    \E h \in Handlers :
        /\ Trigger(h)
        /\ Idx(h, "wait") # {}
        /\ RepliedWithoutTools(h)
        /\ frame[h].pc = "returned"
        /\ Idx(h, "del") = {}
        /\ MESSAGES[Len(MESSAGES)] = UserMessage(frame[h].user_input)
        /\ MESSAGES[Len(MESSAGES) - 1].role = "function"
        /\ Capability(MESSAGES[Len(MESSAGES) - 1].name) # ""
        /\ store = None

-----------------------------------------------------------------------------
(* C19 *)

\* The requests a step has added to the handling of h, also when the step
\* has begun the handling.
NewRequests(h) ==
    LET new == IF IsPrefix(events[h], events'[h])
               THEN SubSeq(events'[h], Len(events[h]) + 1, Len(events'[h]))
               ELSE events'[h]
    IN {new[i][2] : i \in {j \in DOMAIN new : new[j][1] = "create"}}

\* After chat_inner of h has returned an error, the conversation still ends
\* with the User message of h and the Function messages h had pushed.
C19_ErrorKeepsPushed ==
    \A h \in Handlers :
        (frame[h].ret = <<"Err">> /\ frame[h].pc \in {"send_await", "returned"})
        => /\ Len(Pushed(h)) >= 1
           /\ Pushed(h)[1] = UserMessage(frame[h].user_input)
           /\ Len(MESSAGES) > Len(Pushed(h))
           /\ SubSeq(MESSAGES, Len(MESSAGES) - Len(Pushed(h)) + 1, Len(MESSAGES)) = Pushed(h)

\* C19: a failed dispatch is not rolled back.  When chat_inner returns an
\* error after the push of the User message, the conversation keeps that
\* message and every Function message pushed before the failure; no later
\* step takes a message away, and every model request issued later carries
\* the whole conversation of its time, these messages included.
C19_FailureNotRolledBack ==
    /\ []C19_ErrorKeepsPushed
    /\ [][IsPrefix(MESSAGES, MESSAGES')]_vars
    /\ [][\A h \in Handlers : \A r \in NewRequests(h) : r.messages = MESSAGES']_vars

\* The second of two tool calls had arguments that do not parse: handler has
\* returned, and the conversation ends with the User message and the
\* Function message of the first call.
C19_Witness ==
    \E h \in Handlers :
        /\ frame[h].ret = <<"Err">>
        /\ frame[h].pc = "returned"
        /\ RequestsTools(h)
        /\ Requested(h) = <<ToolCall("scraper", ArgsUrl), ToolCall("getWeather", ArgsCityNum)>>
        /\ FailedParses(h) # {}
        /\ Len(FunctionPushes(h)) = 1
        /\ MESSAGES[Len(MESSAGES)].name = "scraper"
        /\ MESSAGES[Len(MESSAGES) - 1] = UserMessage(frame[h].user_input)

-----------------------------------------------------------------------------
(* C20 *)

\* The choices of the modelled responses that carry content.
ChoicesWithContent ==
    UNION {{r.choices[i] : i \in DOMAIN r.choices} : r \in Responses1 \cup Responses2}

\* The contents of those choices.
ModelContents == {ch.content[1] : ch \in {x \in ChoicesWithContent : x.content # None}}

\* The System message, then only User and Function messages, none of them
\* with a content the model returned.
NoModelOutput(messages) ==
    /\ messages # <<>>
    /\ messages[1] = InitialMessages[1]
    /\ \A i \in 2..Len(messages) :
          /\ messages[i].role \in {"user", "function"}
          /\ messages[i].content \notin ModelContents

\* C20: no output of the model is recorded in the conversation.  In every
\* reachable state it is the System message followed only by User and
\* Function messages, and so is the context of every request: neither the
\* tool-call message of response #1 nor the reply of response #2 is in it.
C20_NoModelOutputRecorded ==
    /\ NoModelOutput(MESSAGES)
    /\ \A h \in Handlers : \A i \in Idx(h, "create") : NoModelOutput(events[h][i][2].messages)

\* After an earlier handling, a handling has answered a tool call of
\* response #1 and returned the reply of response #2; the conversation ends
\* with its User and Function messages.
C20_Witness ==
    \E h \in Handlers :
        /\ handled >= 2
        /\ Len(MESSAGES) >= 4
        /\ frame[h].ret = <<"Ok", Some(<<"final">>)>>
        /\ frame[h].pc = "returned"
        /\ Len(FunctionPushes(h)) = 1
        /\ MESSAGES[Len(MESSAGES)].role = "function"
        /\ MESSAGES[Len(MESSAGES) - 1].role = "user"

====
